---- MODULE Spec2Model ----
(***************************************************************************)
(* Model of the client-side session store of www.minsol.kr                 *)
(* (store/auth.store.ts): the zustand record {accessToken, user,           *)
(* isAuthenticated, isLoading, error}, its synchronous operations and the  *)
(* two asynchronous operations refreshAccessToken and validateToken, which *)
(* suspend at every await and may be in flight for several callers at      *)
(* once.                                                                   *)
(***************************************************************************)
EXTENDS Integers, Sequences, FiniteSets, TLC

\* ------------------------------------------------------------------------
\* Values
\* ------------------------------------------------------------------------

\* JavaScript null / undefined.
Null == "<null>"

\* Non-empty bearer tokens.
Tokens == {"abc", "xyz"}

\* Arguments of TypeScript type `string` passed as a token: a token or "".
TokenArgs == Tokens \cup {""}

\* User records (interface User).
Users == {"u1"}

\* The parties that can have an asynchronous operation in flight: the
\* AuthProvider's effects/timer and a manual call from a component.
Callers == {"scheduler", "manual"}

\* Error messages.  The Korean literals of the source are transliterated.
MsgRefreshFailed == "refresh failed"        \* '토큰 갱신 실패'
MsgNoAccessToken == "no access token"       \* 'Access Token이 응답에 없습니다'
MsgValidateFailed == "validate failed"      \* '토큰 검증 실패'
MsgNetwork == "Failed to fetch"             \* TypeError rejected by fetch()
MsgJson == "Unexpected token"               \* SyntaxError of response.json()
MsgUser == "msg"                            \* argument of setError

\* JavaScript truthiness of a string-or-null value (`!!token`, `!accessToken`).
Truthy(v) == v # Null /\ v # ""

initialState ==
    [accessToken |-> Null, user |-> Null, isAuthenticated |-> FALSE,
     isLoading |-> FALSE, error |-> Null]

\* zustand set(partial): shallow merge of the patch over the record s.
set(patch, s) == patch @@ s

\* ------------------------------------------------------------------------
\* State
\* ------------------------------------------------------------------------

VARIABLES
    session,    \* the store's AuthState record
    calls,      \* per caller: the asynchronous operation it has in flight
    done,       \* the asynchronous operation that returned in the last step
    lastOp,     \* name of the operation or continuation that ran last
    prevOp,     \* the one before it: "login", "logout" or "other"
    snap,       \* the session before the last step, when that followed a logout
    storage,    \* the localStorage entry 'auth-storage' of the persist middleware
    logoutReq,  \* the fire-and-forget requests to /api/auth/logout
    provider,   \* the AuthProvider component: mount, last render, timers
    sinceLogout,\* a logout stopped the scheduler and nobody logged in since
    loggedOut,  \* a logout ran; no login, setAccessToken or new call since
    http        \* a call of the server-side cookie helpers: arguments, result

vars == <<session, calls, done, lastOp, prevOp, snap, storage, logoutReq,
          provider, sinceLogout, loggedOut, http>>

\* No asynchronous operation in flight for a caller.
IdleCall ==
    [pc |-> "idle", op |-> "none", tok |-> Null, fromEmpty |-> FALSE,
     vres |-> "none", vreqs |-> 0, rcalls |-> 0, overlap |-> FALSE]

\* No asynchronous operation returned in the last step.
NoDone ==
    [caller |-> "none", op |-> "none", tok |-> Null, fromEmpty |-> FALSE,
     vres |-> "none", vreqs |-> 0, rcalls |-> 0, overlap |-> FALSE,
     rres |-> "none", body |-> Null, rret |-> "none", result |-> "none"]

NoSnap == [none |-> TRUE]

\* The storage entry before the first write.
Absent == [absent |-> TRUE]

\* Variant of partialize that stores the whole state.
partializeWholeState(state) == state

\* partialize of the persist options: what of the state is stored.
partialize(state) ==
    [accessToken |-> state.accessToken, user |-> state.user,
     isAuthenticated |-> state.isAuthenticated]

\* The persist middleware writes the entry after every set().
persist == storage' = partialize(session')

\* The AuthProvider before its first mount and after an unmount.
Unmounted ==
    [mounted |-> FALSE, rendered |-> FALSE, timers |-> 0, issued |-> FALSE]

\* No call of a cookie helper.
NoHttp == [phase |-> "none"]

\* The variables the store's operations never touch.
UnchangedByStore == UNCHANGED <<provider, http>>

\* ------------------------------------------------------------------------
\* The patches the operations hand to set()
\* ------------------------------------------------------------------------

\* Variant of setAccessTokenPatch that also drops the user record.
setAccessTokenDropsUser(token) ==
    [accessToken |-> token, user |-> Null, isAuthenticated |-> Truthy(token),
     error |-> Null]

setAccessTokenPatch(token) ==
    [accessToken |-> token, isAuthenticated |-> Truthy(token), error |-> Null]

setUserPatch(user) == [user |-> user, error |-> Null]

\* Variant of loginPatch that leaves an earlier error in place.
loginKeepsError(accessToken, user) ==
    [accessToken |-> accessToken, user |-> user, isAuthenticated |-> TRUE,
     isLoading |-> FALSE]

loginPatch(accessToken, user) ==
    [accessToken |-> accessToken, user |-> user, isAuthenticated |-> TRUE,
     isLoading |-> FALSE, error |-> Null]

\* Variants of logoutPatch: one that forgets to drop the user record, one
\* that records an error when nobody is logged in.
logoutKeepsUser(s) ==
    [accessToken |-> Null, isAuthenticated |-> FALSE, isLoading |-> FALSE,
     error |-> Null]

logoutReportsWhenLoggedOut(s) ==
    IF s.isAuthenticated \/ s.error # Null
    THEN initialState
    ELSE [initialState EXCEPT !.error = "not logged in"]

logoutPatch(s) == initialState

clearErrorPatch == [error |-> Null]

setErrorPatch(error) == [error |-> error, isLoading |-> FALSE]

setLoadingPatch(isLoading) == [isLoading |-> isLoading]

refreshPending == [isLoading |-> TRUE, error |-> Null]

\* Variant of refreshFulfilled that stores the token without raising the
\* authentication flag.
refreshFulfilledTokenOnly(accessToken) ==
    [accessToken |-> accessToken, isLoading |-> FALSE, error |-> Null]

\* Variant of refreshFulfilled that rebuilds the state from initialState and
\* so drops the user record.
refreshFulfilledResetsUser(accessToken) ==
    [initialState EXCEPT !.accessToken = accessToken,
                         !.isAuthenticated = TRUE]

\* Variant of refreshFulfilled that keeps a token another operation stored.
refreshFulfilledKeepsHeldToken(accessToken) ==
    [accessToken |-> IF Truthy(session.accessToken)
                     THEN session.accessToken ELSE accessToken,
     isAuthenticated |-> TRUE, isLoading |-> FALSE, error |-> Null]

refreshFulfilled(accessToken) ==
    [accessToken |-> accessToken, isAuthenticated |-> TRUE,
     isLoading |-> FALSE, error |-> Null]

\* Variants of refreshRejected: one that keeps the stale token, one that
\* drops the error message.
refreshRejectedKeepsToken(errorMessage) ==
    [isAuthenticated |-> FALSE, isLoading |-> FALSE, error |-> errorMessage]

refreshRejectedNoMessage(errorMessage) ==
    [accessToken |-> Null, isAuthenticated |-> FALSE,
     isLoading |-> FALSE, error |-> Null]

refreshRejected(errorMessage) ==
    [accessToken |-> Null, isAuthenticated |-> FALSE,
     isLoading |-> FALSE, error |-> errorMessage]

validatePending == [isLoading |-> TRUE]

\* Variant of validateFulfilled that also clears the error.
validateFulfilledClearsError == [isLoading |-> FALSE, error |-> Null]

validateFulfilled == [isLoading |-> FALSE]

validateRejected(errorMessage) == [isLoading |-> FALSE, error |-> errorMessage]

\* ------------------------------------------------------------------------
\* History bookkeeping shared by all actions
\* ------------------------------------------------------------------------

HistStep(name) ==
    /\ lastOp' = name
    /\ prevOp' = IF lastOp \in {"login", "logout"} THEN lastOp ELSE "other"
    /\ snap' = IF lastOp = "logout" THEN session ELSE NoSnap
    /\ sinceLogout' =
          CASE name = "logout" -> provider.mounted /\ provider.timers > 0
            [] name \in {"login", "setAccessToken", "refreshAccessToken",
                         "validateToken", "mount", "unmount"} -> FALSE
            [] OTHER -> sinceLogout
    /\ loggedOut' =
          CASE name = "logout" -> TRUE
            [] name \in {"login", "setAccessToken", "refreshAccessToken",
                         "validateToken", "mount", "commit", "tick"} -> FALSE
            [] OTHER -> loggedOut

Hist(name, d) ==
    /\ HistStep(name)
    /\ done' = d

\* ------------------------------------------------------------------------
\* Synchronous operations
\* ------------------------------------------------------------------------

setAccessToken(token) ==
    /\ session' = set(setAccessTokenPatch(token), session)
    /\ persist
    /\ UNCHANGED <<calls, logoutReq>>
    /\ Hist("setAccessToken", NoDone)
    /\ UnchangedByStore

setUser(user) ==
    /\ session' = set(setUserPatch(user), session)
    /\ persist
    /\ UNCHANGED <<calls, logoutReq>>
    /\ Hist("setUser", NoDone)
    /\ UnchangedByStore

login(accessToken, user) ==
    /\ session' = set(loginPatch(accessToken, user), session)
    /\ persist
    /\ UNCHANGED <<calls, logoutReq>>
    /\ Hist("login", NoDone)
    /\ UnchangedByStore

\* What the request to /api/auth/logout can do: answer 2xx, answer an error
\* status, or reject (network failure).
logoutOutcomes == {"ok", "error", "neterr"}

\* Variant of logoutCatches: the logout fetch without its catch handler.
logoutCatchesNothing(outcome) == FALSE

\* `.catch(...)` on the logout fetch: the rejection is logged, not rethrown.
logoutCatches(outcome) == outcome = "neterr"

\* logout(): the request is sent and not awaited, then the state is reset.
logout ==
    /\ logoutReq' = [logoutReq EXCEPT !.pending = TRUE]
    /\ session' = set(logoutPatch(session), session)
    /\ persist
    /\ UNCHANGED calls
    /\ Hist("logout", NoDone)
    /\ UnchangedByStore

\* A logout request settles.  Its resolution has no handler; its rejection
\* has the catch handler, which only logs.  Other logout requests may still
\* be pending.
logoutSettle(outcome) ==
    /\ logoutReq.pending
    /\ \E more \in BOOLEAN :
         logoutReq' = [pending |-> more,
                       unhandled |-> \/ logoutReq.unhandled
                                     \/ (outcome = "neterr"
                                           /\ ~logoutCatches(outcome))]
    /\ UNCHANGED <<session, calls, storage>>
    /\ Hist(IF outcome = "neterr" THEN "logoutRejected" ELSE "logoutResolved",
            NoDone)
    /\ UnchangedByStore

clearError ==
    /\ session' = set(clearErrorPatch, session)
    /\ persist
    /\ UNCHANGED <<calls, logoutReq>>
    /\ Hist("clearError", NoDone)
    /\ UnchangedByStore

setError(error) ==
    /\ session' = set(setErrorPatch(error), session)
    /\ persist
    /\ UNCHANGED <<calls, logoutReq>>
    /\ Hist("setError", NoDone)
    /\ UnchangedByStore

setLoading(isLoading) ==
    /\ session' = set(setLoadingPatch(isLoading), session)
    /\ persist
    /\ UNCHANGED <<calls, logoutReq>>
    /\ Hist("setLoading", NoDone)
    /\ UnchangedByStore

\* ------------------------------------------------------------------------
\* Asynchronous operations: control flow
\* ------------------------------------------------------------------------

\* What the validate request can answer: 2xx, 401, another status, or the
\* fetch promise rejecting.
validateOutcomes == {"ok", "401", "other", "neterr"}

\* What the refresh request can answer: the fetch promise rejecting, a
\* non-ok status, or an ok status.
refreshOutcomes == {"neterr", "notok", "ok"}

\* What `await response.json()` of an ok refresh response can yield: a
\* rejection (no JSON), or an object whose accessToken is absent, "" or a
\* token.
Unparsable == "<unparsable>"
refreshBodies == {Unparsable, Null, ""} \cup Tokens

\* Variant of validateSkipsRequest that tests `accessToken === null`.
validateSkipsOnlyNull(accessToken) == accessToken = Null

\* `if (!accessToken)`: validateToken goes straight to refreshAccessToken.
validateSkipsRequest(accessToken) == ~Truthy(accessToken)

\* Variant of validateDelegates that refreshes on 401 only.
validateDelegatesOn401Only(vres) == vres = "401"

\* validateToken falls back to refreshAccessToken unless `response.ok`.
validateDelegates(vres) == vres # "ok"

\* The error the catch block of validateToken records.
validateErrorMessage(vres) ==
    IF vres = "neterr" THEN MsgNetwork ELSE MsgValidateFailed

\* `return await refreshAccessToken()`.
validateReturn(rret) == rret

\* Variant of refreshSettle with `await response.json()` outside the try
\* block: a body that does not parse leaves the function as an exception.
refreshSettleJsonUncaught(rres, body) ==
    CASE rres = "neterr" ->
           [ret |-> "false", patch |-> refreshRejected(MsgNetwork)]
      [] rres = "notok" ->
           [ret |-> "false", patch |-> refreshRejected(MsgRefreshFailed)]
      [] rres = "ok" /\ body = Unparsable ->
           [ret |-> "threw", patch |-> <<>>]
      [] rres = "ok" /\ body # Unparsable /\ Truthy(body) ->
           [ret |-> "true", patch |-> refreshFulfilled(body)]
      [] OTHER ->
           [ret |-> "false", patch |-> refreshRejected(MsgNoAccessToken)]

\* The try/catch of refreshAccessToken: for an outcome of the request (and
\* of parsing its body), what the call returns ("true", "false", or "threw"
\* for an exception leaving the function) and the patch it hands to set().
refreshSettle(rres, body) ==
    CASE rres = "neterr" ->
           [ret |-> "false", patch |-> refreshRejected(MsgNetwork)]
      [] rres = "notok" ->
           [ret |-> "false", patch |-> refreshRejected(MsgRefreshFailed)]
      [] rres = "ok" /\ body = Unparsable ->
           [ret |-> "false", patch |-> refreshRejected(MsgJson)]
      [] rres = "ok" /\ body # Unparsable /\ Truthy(body) ->
           [ret |-> "true", patch |-> refreshFulfilled(body)]
      [] OTHER ->
           [ret |-> "false", patch |-> refreshRejected(MsgNoAccessToken)]

\* ------------------------------------------------------------------------
\* Asynchronous operations: steps.  A step is one synchronous run of the
\* event loop, from the resumption of an await to the next suspension or
\* to the return of the outermost call.
\* ------------------------------------------------------------------------

\* Calls that are in flight together are marked as overlapping.
Overlapped(cs) ==
    [d \in Callers |->
        IF cs[d].pc # "idle" /\ \E e \in Callers \ {d} : cs[e].pc # "idle"
        THEN [cs[d] EXCEPT !.overlap = TRUE]
        ELSE cs[d]]

\* The call record of an operation that `caller` starts now.
StartCall(opname) ==
    [IdleCall EXCEPT !.op = opname]

\* refreshAccessToken() is entered by the call `call` of caller c on the
\* session s: the pending set, then suspension at the fetch.
EnterRefresh(c, call, s) ==
    /\ session' = set(refreshPending, s)
    /\ persist
    /\ calls' = Overlapped([calls EXCEPT ![c] =
                    [call EXCEPT !.pc = "refresh_fetch", !.rcalls = @ + 1]])

\* The outermost call of caller c returns.
Return(c, call, rres, body, rret, result) ==
    /\ calls' = [calls EXCEPT ![c] = IdleCall]
    /\ done' = [caller |-> c, op |-> call.op, tok |-> call.tok,
                fromEmpty |-> call.fromEmpty, vres |-> call.vres,
                vreqs |-> call.vreqs, rcalls |-> call.rcalls,
                overlap |-> call.overlap,
                rres |-> rres, body |-> body, rret |-> rret,
                result |-> result]

\* refreshAccessToken() called directly.
refreshAccessToken(c) ==
    /\ calls[c].pc = "idle"
    /\ EnterRefresh(c, StartCall("refresh"), session)
    /\ UNCHANGED logoutReq
    /\ Hist("refreshAccessToken", NoDone)
    /\ UnchangedByStore

\* validateToken() called: get(), then either refreshAccessToken() or the
\* pending set and the validate request.
validateTokenStart(c) ==
    /\ calls[c].pc = "idle"
    /\ LET call == [StartCall("validate") EXCEPT
                        !.tok = session.accessToken,
                        !.fromEmpty = (session = initialState)]
       IN  IF validateSkipsRequest(session.accessToken)
           THEN EnterRefresh(c, call, session)
           ELSE /\ session' = set(validatePending, session)
                /\ persist
                /\ calls' = Overlapped([calls EXCEPT ![c] =
                      [call EXCEPT !.pc = "validate_fetch", !.vreqs = @ + 1]])
    /\ UNCHANGED logoutReq

\* validateToken() called by a component.
validateToken(c) ==
    /\ validateTokenStart(c)
    /\ Hist("validateToken", NoDone)
    /\ UnchangedByStore

\* The validate request settles with outcome vres.
validateResponse(c, vres) ==
    /\ calls[c].pc = "validate_fetch"
    /\ LET call == [calls[c] EXCEPT !.vres = vres]
       IN  IF ~validateDelegates(vres)
           THEN /\ session' = set(validateFulfilled, session)
                /\ persist
                /\ Return(c, call, "none", Null, "none", "true")
           ELSE /\ EnterRefresh(c, call,
                      IF vres = "401"
                      THEN session
                      ELSE set(validateRejected(validateErrorMessage(vres)),
                               session))
                /\ done' = NoDone
    /\ UNCHANGED logoutReq
    /\ HistStep("validateResponse")
    /\ UnchangedByStore

\* refreshAccessToken() of caller c settles with (rres, body); the
\* enclosing validateToken(), if any, resumes in the same run.
Settle(c, rres, body) ==
    LET call == calls[c]
        r == refreshSettle(rres, body)
        s1 == set(r.patch, session)
    IN  IF r.ret = "threw" /\ call.op = "validate" /\ call.vres = "401"
           /\ call.rcalls = 1
        THEN \* thrown inside the try block of validateToken: its catch runs
             /\ EnterRefresh(c, call, set(validateRejected(MsgJson), s1))
             /\ done' = NoDone
        ELSE /\ session' = s1
             /\ persist
             /\ Return(c, call, rres, body, r.ret,
                       IF call.op = "validate"
                       THEN validateReturn(r.ret) ELSE r.ret)

\* The refresh request settles with outcome rres.
refreshResponse(c, rres) ==
    /\ calls[c].pc = "refresh_fetch"
    /\ IF rres = "ok"
       THEN /\ calls' = [calls EXCEPT ![c].pc = "refresh_json"]
            /\ UNCHANGED <<session, storage>>
            /\ done' = NoDone
       ELSE Settle(c, rres, Null)
    /\ UNCHANGED logoutReq
    /\ HistStep("refreshResponse")
    /\ UnchangedByStore

\* response.json() of the refresh response settles with body.
refreshBody(c, body) ==
    /\ calls[c].pc = "refresh_json"
    /\ Settle(c, "ok", body)
    /\ UNCHANGED logoutReq
    /\ HistStep("refreshBody")
    /\ UnchangedByStore

\* ------------------------------------------------------------------------
\* AuthProvider (store/auth-provider.tsx).  The component renders with the
\* store's isAuthenticated; a store change that alters it re-renders the
\* component and re-runs both effects (cleanup of the previous run first)
\* before any timer, response or user event is handled.
\* ------------------------------------------------------------------------

\* The last render is older than the store's isAuthenticated.
CommitPending ==
    provider.mounted /\ provider.rendered # session.isAuthenticated

\* First effect: `if (isAuthenticated) validateToken()`.
effectValidates(isAuthenticated) == isAuthenticated

\* Second effect: `if (!isAuthenticated) return;` then setInterval.
effectSetsInterval(isAuthenticated) == isAuthenticated

\* Variant of hasCleanup: the second effect returns no cleanup function.
hasNoCleanup(rendered) == FALSE

\* The second effect returned `() => clearInterval(interval)` in the run
\* that rendered `rendered`.
hasCleanup(rendered) == effectSetsInterval(rendered)

\* The effects run for a render with isAuthenticated = a; cleanup tells
\* whether the previous run left a cleanup function.
RunEffects(a, cleanup) ==
    /\ provider' =
          [mounted |-> TRUE, rendered |-> a,
           timers |-> provider.timers - (IF cleanup THEN 1 ELSE 0)
                         + (IF effectSetsInterval(a) THEN 1 ELSE 0),
           issued |-> effectValidates(a)]
    /\ IF effectValidates(a)
       THEN validateTokenStart("scheduler")
       ELSE UNCHANGED <<session, calls, storage, logoutReq>>
    /\ done' = NoDone
    /\ UNCHANGED http

\* The component mounts: first render and first run of the effects.
mount ==
    /\ ~provider.mounted
    /\ RunEffects(session.isAuthenticated, FALSE)
    /\ HistStep("mount")

\* The component unmounts: the cleanup of the last run.
unmount ==
    /\ provider.mounted
    /\ ~CommitPending
    /\ provider' =
          [Unmounted EXCEPT
              !.timers = provider.timers
                            - (IF hasCleanup(provider.rendered) THEN 1 ELSE 0)]
    /\ UNCHANGED <<session, calls, storage, logoutReq, http>>
    /\ done' = NoDone
    /\ HistStep("unmount")

\* Re-render after isAuthenticated changed: cleanup, then the effects.
commit ==
    /\ CommitPending
    /\ RunEffects(session.isAuthenticated, hasCleanup(provider.rendered))
    /\ HistStep("commit")

\* A live interval timer fires: validateToken().
tick ==
    /\ provider.timers > 0
    /\ ~CommitPending
    /\ validateTokenStart("scheduler")
    /\ provider' = [provider EXCEPT !.issued = TRUE]
    /\ done' = NoDone
    /\ UNCHANGED http
    /\ HistStep("tick")

\* ------------------------------------------------------------------------
\* Refresh-token cookie helpers of the API routes (services/mainservice)
\* ------------------------------------------------------------------------

\* 30 * 24 * 60 * 60 seconds, the default life of the cookie.
DefaultMaxAge == 2592000

\* Refresh tokens the backend hands out.
RefreshTokens == {"rt1", "rt2", "rt3"}

\* The response a route builds with NextResponse.json before it calls the
\* helper.
JsonResponse ==
    [kind |-> "json", status |-> 200, location |-> Null, setCookie |-> {}]

\* A call that ends with an exception instead of a response.
Threw ==
    [kind |-> "threw", status |-> 0, location |-> Null, setCookie |-> {}]

AbsoluteUrls == {"https://www.minsol.kr/dashboard/google"}
RelativeUrls == {"/dashboard/google"}

\* NextResponse.redirect(url): a new response with a Location header and
\* no other header of the caller's response; it rejects a URL that is not
\* absolute with an exception.
NextResponseRedirect(url) ==
    IF url \in AbsoluteUrls
    THEN [kind |-> "redirect", status |-> 307, location |-> url,
          setCookie |-> {}]
    ELSE Threw

\* setRefreshTokenCookie: sets the Set-Cookie header of `response` (the
\* field setCookie holds the values of that header, none or one); Secure is
\* dropped outside production.
setRefreshTokenCookie(response, refreshToken, maxAge, isProduction) ==
    [response EXCEPT !.setCookie =
        {[name |-> "refresh_token", value |-> refreshToken,
          httpOnly |-> TRUE, secure |-> isProduction,
          sameSite |-> "Strict", path |-> "/", maxAge |-> maxAge]}]

\* The call without an options argument.
NoOptions == [given |-> FALSE, maxAge |-> <<>>, redirectUrl |-> Null]

\* handleLoginSuccess(response, refreshToken, options); options.given says
\* whether the argument was passed, options.redirectUrl is Null when absent,
\* and options.maxAge is <<>> when absent and <<n>> when given.
handleLoginSuccess(response, refreshToken, options, isProduction) ==
    IF ~Truthy(refreshToken)
    THEN response
    ELSE LET given == IF options.given THEN options.maxAge ELSE <<>>
             maxAge == IF given # <<>> /\ given[1] # 0
                       THEN given[1] ELSE DefaultMaxAge
             withCookie == setRefreshTokenCookie(response, refreshToken,
                                                 maxAge, isProduction)
             redirectUrl == IF options.given THEN options.redirectUrl
                            ELSE Null
         IN  IF Truthy(redirectUrl)
             THEN NextResponseRedirect(redirectUrl)
             ELSE withCookie

\* The arguments a route can pass.
LoginOptions ==
    {NoOptions} \cup
    [given : {TRUE}, maxAge : {<<>>, <<0>>, <<60>>},
     redirectUrl : {Null, ""} \cup RelativeUrls \cup AbsoluteUrls]

HttpCalls ==
    [phase : {"called"}, response : {JsonResponse},
     refreshToken : {Null, ""} \cup RefreshTokens,
     options : LoginOptions, isProduction : BOOLEAN]

\* A route calls handleLoginSuccess and returns its result.
handleLoginSuccessReturns ==
    /\ http.phase = "called"
    /\ http' = [phase |-> "returned", response |-> http.response,
                refreshToken |-> http.refreshToken,
                options |-> http.options,
                isProduction |-> http.isProduction,
                result |-> handleLoginSuccess(http.response,
                              http.refreshToken, http.options,
                              http.isProduction)]
    /\ UNCHANGED <<session, calls, done, lastOp, prevOp, snap, storage,
                   logoutReq, provider, sinceLogout, loggedOut>>

\* ------------------------------------------------------------------------
\* The cookie as text.  A string is a sequence of lexemes: the characters
\* of a token, the delimiters "=", ";" and " " one by one, and each fixed
\* word ("refresh_token", "HttpOnly", ...) as one lexeme.
\* ------------------------------------------------------------------------

\* Longest token written to a cookie.
MaxTokenLen == 3

\* Characters of a token; "=" is the padding of base64.
TokenChars == {"a", "b", "="}

TokenStrings == UNION {[1..n -> TokenChars] : n \in 1..MaxTokenLen}

\* `refresh_token=${refreshToken}`, the first element of cookieOptions.
cookiePair(refreshToken) == <<"refresh_token", "=">> \o refreshToken

\* String.prototype.split(sep).
RECURSIVE split(_, _)
split(str, sep) ==
    IF \A i \in 1..Len(str) : str[i] # sep
    THEN <<str>>
    ELSE LET i == CHOOSE k \in 1..Len(str) :
                     /\ str[k] = sep
                     /\ \A j \in 1..(k - 1) : str[j] # sep
         IN  <<SubSeq(str, 1, i - 1)>> \o split(SubSeq(str, i + 1, Len(str)), sep)

\* String.prototype.trim().
RECURSIVE trim(_)
trim(str) ==
    IF str = <<>> THEN str
    ELSE IF Head(str) = " " THEN trim(Tail(str))
    ELSE IF str[Len(str)] = " " THEN trim(SubSeq(str, 1, Len(str) - 1))
    ELSE str

\* String.prototype.startsWith(prefix).
startsWith(str, prefix) ==
    /\ Len(str) >= Len(prefix)
    /\ SubSeq(str, 1, Len(prefix)) = prefix

\* Array.prototype.join('; ').
RECURSIVE join(_)
join(parts) ==
    IF parts = <<>> THEN <<>>
    ELSE IF Len(parts) = 1 THEN parts[1]
    ELSE parts[1] \o <<";", " ">> \o join(Tail(parts))

\* `refreshTokenCookie.split('=')[1]`.
valueAfterName(cookie) == split(cookie, "=")[2]

\* getRefreshTokenFromCookie for a request whose Cookie header is `cookies`
\* (<<>> when the request has none).  The result is the token, or <<>> for
\* null: `token || null` never returns the empty string.
getRefreshTokenFromCookie(cookies) ==
    IF cookies = <<>>
    THEN <<>>
    ELSE LET parts == split(cookies, ";")
             cookieArray == [i \in 1..Len(parts) |-> trim(parts[i])]
             found == {i \in 1..Len(cookieArray) :
                          startsWith(cookieArray[i], <<"refresh_token", "=">>)}
         IN  IF found = {}
             THEN <<>>
             ELSE LET first == CHOOSE i \in found : \A j \in found : i <= j
                  IN  valueAfterName(cookieArray[first])

\* Another cookie of the site, sent in the same header.
OtherPair == <<"theme", "=", "a">>

\* The requests that carry the pair written for a token: alone, after and
\* before another cookie.
RoundTrips ==
    [phase : {"written"}, token : TokenStrings, isProduction : BOOLEAN,
     place : {"alone", "last", "first"}]

\* The Cookie header of the request that follows: the name=value pair of
\* the Set-Cookie header of `response`, among the other cookies.
cookieHeader(response, place) ==
    LET pairs == {cookiePair(cookie.value) : cookie \in response.setCookie}
        pair == CHOOSE q \in pairs : TRUE
    IN  CASE place = "alone" -> pair
          [] place = "last" -> join(<<OtherPair, pair>>)
          [] OTHER -> join(<<pair, OtherPair>>)

\* setRefreshTokenCookie(response, token) on a fresh response, then
\* getRefreshTokenFromCookie on the request that carries the cookie.
cookieRoundTrip ==
    /\ http.phase = "written"
    /\ LET response == setRefreshTokenCookie(JsonResponse, http.token,
                                             DefaultMaxAge, http.isProduction)
           cookies == cookieHeader(response, http.place)
       IN  http' = [phase |-> "read", token |-> http.token,
                    isProduction |-> http.isProduction, place |-> http.place,
                    cookies |-> cookies,
                    result |-> getRefreshTokenFromCookie(cookies)]
    /\ UNCHANGED <<session, calls, done, lastOp, prevOp, snap, storage,
                   logoutReq, provider, sinceLogout, loggedOut>>

\* ------------------------------------------------------------------------
\* The routes that write, read and clear the cookie, and the browser's
\* cookie jar between them
\* ------------------------------------------------------------------------

\* The browser applies the Set-Cookie headers of a response: a cookie
\* replaces the one of the same name, and one with Max-Age=0 is dropped.
browserStores(jar, setCookie) ==
    {cookie \in jar : \A new \in setCookie : new.name # cookie.name}
        \cup {new \in setCookie : new.maxAge > 0}

\* `request.cookies.get(name)?.value`.
requestCookie(jar, name) ==
    IF \E cookie \in jar : cookie.name = name
    THEN (CHOOSE cookie \in jar : cookie.name = name).value
    ELSE Null

\* The response of POST /api/auth/logout.
logoutRouteResponse(isProduction) ==
    [JsonResponse EXCEPT !.setCookie =
        {[name |-> "refreshToken", value |-> "",
          httpOnly |-> TRUE, secure |-> isProduction,
          sameSite |-> "lax", path |-> "/", maxAge |-> 0]}]

\* POST /api/auth/refresh: the credential it reads from the request and the
\* status it answers with, for an outcome of the backend request.
refreshRouteAnswer(jar, backend) ==
    LET refreshToken == requestCookie(jar, "refreshToken")
    IN  [route |-> "refresh", credential |-> refreshToken,
         status |-> IF ~Truthy(refreshToken) THEN 401
                    ELSE CASE backend = "ok" -> 200
                           [] backend = "notok" -> 401
                           [] OTHER -> 500]

\* A browser that has not talked to the site yet.
Browsers ==
    [phase : {"browser"}, isProduction : BOOLEAN, jar : {{}},
     loginToken : {Null}, loggedOutSince : {FALSE},
     last : {[route |-> "none", credential |-> Null, status |-> 0]}]

\* A login callback route answers through handleLoginSuccess; the browser
\* stores the cookies of the answer.  loginToken is the refresh token of
\* the last login whose answer carried the cookie.
loginRoute(refreshToken, options) ==
    /\ http.phase = "browser"
    /\ LET result == handleLoginSuccess(JsonResponse, refreshToken, options,
                                        http.isProduction)
       IN  http' = [http EXCEPT
                !.jar = browserStores(@, result.setCookie),
                !.loginToken = IF result.setCookie # {}
                               THEN refreshToken ELSE Null,
                !.loggedOutSince = FALSE,
                !.last = [route |-> "login", credential |-> Null,
                          status |-> IF result.kind = "threw"
                                     THEN 500 ELSE result.status]]
    /\ UNCHANGED <<session, calls, done, lastOp, prevOp, snap, storage,
                   logoutReq, provider, sinceLogout, loggedOut>>

\* POST /api/auth/logout, and the browser storing its answer.
logoutRoute ==
    /\ http.phase = "browser"
    /\ LET response == logoutRouteResponse(http.isProduction)
       IN  http' = [http EXCEPT
                !.jar = browserStores(@, response.setCookie),
                !.loggedOutSince = TRUE,
                !.last = [route |-> "logout", credential |-> Null,
                          status |-> response.status]]
    /\ UNCHANGED <<session, calls, done, lastOp, prevOp, snap, storage,
                   logoutReq, provider, sinceLogout, loggedOut>>

\* POST /api/auth/refresh with the cookies of the jar.
refreshRoute(backend) ==
    /\ http.phase = "browser"
    /\ http' = [http EXCEPT !.last = refreshRouteAnswer(http.jar, backend)]
    /\ UNCHANGED <<session, calls, done, lastOp, prevOp, snap, storage,
                   logoutReq, provider, sinceLogout, loggedOut>>

\* ------------------------------------------------------------------------
\* The auth-url proxy route with retry (app/api/auth/google/auth-url)
\* ------------------------------------------------------------------------

maxRetries == 2

\* Statuses the backend answers with.
BackendStatuses == {200, 404, 500, 502, 503}

\* Errors a fetch rejects with, other than the abort: the TypeError of a
\* failed connection, and any other error.
FetchErrors == {"fetch failed", "other"}

\* `response.ok`.
ok(status) == status >= 200 /\ status <= 299

\* Variant of retries that tries again after every response that is not ok.
retriesEveryFailure(status) == ~ok(status)

\* The loop goes on after a 502 or a 503.
retries(status) == ~(ok(status) \/ (status # 502 /\ status # 503))

\* Variant of statusCode that passes the backend's status on.
statusCodeOfBackend(status) == status

\* `response.status === 502 ? 503 : response.status`.
statusCode(status) == IF status = 502 THEN 503 ELSE status

\* Variant of signalAborted with a controller of its own for each attempt.
signalOfAttempt(aborted) == FALSE

\* All attempts pass controller.signal of the one controller: a fetch
\* called after the abort rejects at once.
signalAborted(aborted) == aborted

\* The two catch blocks around the loop: the status the route answers with
\* for an error thrown out of the inner try block.
catchStatus(err) ==
    CASE err = "AbortError" -> 504
      [] err = "fetch failed" -> 503
      [] OTHER -> 500

\* The route before an incoming request.
ProxyIdle ==
    [phase |-> "incoming", attempt |-> 0, log |-> <<>>, requests |-> 0,
     response |-> 0, timer |-> FALSE, aborted |-> FALSE,
     abortedPending |-> FALSE, via |-> "none", answer |-> 0,
     propagated |-> FALSE]

\* The route returns a response with `status`; status 0 stands for an
\* exception that no catch block turned into a response.
ProxyAnswer(h, via, status) ==
    [h EXCEPT !.phase = "answered", !.timer = FALSE, !.via = via,
              !.answer = status, !.propagated = (status = 0)]

\* A fetch of attempt h.attempt rejected with err: the catch of the loop
\* body, then either the next attempt's backoff or the catch blocks.
ProxyCatch(h, err) ==
    IF h.attempt < maxRetries
    THEN [h EXCEPT !.phase = "backoff", !.attempt = @ + 1]
    ELSE ProxyAnswer(h, "catch", catchStatus(err))

\* A fetch of attempt h.attempt resolved with a response of `status`.
ProxyResponse(h, status) ==
    LET h1 == [h EXCEPT !.response = status]
    IN  IF retries(status) /\ h.attempt < maxRetries
        THEN [h1 EXCEPT !.phase = "backoff", !.attempt = @ + 1]
        ELSE [h1 EXCEPT !.timer = FALSE,
                        !.phase = IF ok(status) THEN "json" ELSE "error_body"]

ProxyUnchanged ==
    UNCHANGED <<session, calls, done, lastOp, prevOp, snap, storage,
                logoutReq, provider, sinceLogout, loggedOut>>

\* POST arrives: the body is read (an unreadable one counts as {}), the
\* abort timer is set and the first request is sent.
proxyPOST ==
    /\ http.phase = "incoming"
    /\ http' = [http EXCEPT !.phase = "fetch", !.timer = TRUE,
                            !.requests = 1]
    /\ ProxyUnchanged

\* The pending request settles with a response.
proxyFetchResolves(status) ==
    /\ http.phase = "fetch"
    /\ http' = ProxyResponse(
                  [http EXCEPT !.log = Append(@, [kind |-> "response",
                                                  status |-> status])],
                  status)
    /\ ProxyUnchanged

\* The pending request fails.
proxyFetchRejects(err) ==
    /\ http.phase = "fetch"
    /\ http' = ProxyCatch(
                  [http EXCEPT !.log = Append(@, [kind |-> "error",
                                                  status |-> 0])],
                  err)
    /\ ProxyUnchanged

\* The 30-second timer fires: controller.abort(); a pending request
\* rejects with an AbortError.
proxyAbort ==
    /\ http.timer
    /\ http.phase \in {"fetch", "backoff"}
    /\ LET h == [http EXCEPT !.timer = FALSE, !.aborted = TRUE]
       IN  http' = IF http.phase = "fetch"
                   THEN ProxyCatch(
                          [h EXCEPT !.abortedPending = TRUE,
                                    !.log = Append(@, [kind |-> "abort",
                                                       status |-> 0])],
                          "AbortError")
                   ELSE h
    /\ ProxyUnchanged

\* The backoff of a retry is over: the next fetch.
proxyRetry ==
    /\ http.phase = "backoff"
    /\ http' = IF signalAborted(http.aborted)
               THEN ProxyCatch(
                      [http EXCEPT !.log = Append(@, [kind |-> "abort",
                                                      status |-> 0])],
                      "AbortError")
               ELSE [http EXCEPT !.phase = "fetch", !.requests = @ + 1]
    /\ ProxyUnchanged

\* The body of a response that is not ok has been read, or could not be.
proxyErrorBody ==
    /\ http.phase = "error_body"
    /\ http' = ProxyAnswer(http, "response", statusCode(http.response))
    /\ ProxyUnchanged

\* `await response.json()` of an ok response settles.
proxyJson(parsed) ==
    /\ http.phase = "json"
    /\ http' = IF parsed
               THEN ProxyAnswer(http, "response", 200)
               ELSE ProxyAnswer(http, "catch", catchStatus("SyntaxError"))
    /\ ProxyUnchanged

\* ------------------------------------------------------------------------
\* Specification
\* ------------------------------------------------------------------------

Init ==
    /\ session = initialState
    /\ calls = [c \in Callers |-> IdleCall]
    /\ done = NoDone
    /\ lastOp = "init"
    /\ prevOp = "other"
    /\ snap = NoSnap
    /\ storage = Absent
    /\ logoutReq = [pending |-> FALSE, unhandled |-> FALSE]
    /\ provider = Unmounted
    /\ sinceLogout = FALSE
    /\ loggedOut = FALSE
    /\ http = NoHttp

\* The operations of the store and the settling of its requests.
StoreNext ==
    \/ \E token \in TokenArgs : setAccessToken(token)
    \/ \E user \in Users : setUser(user)
    \/ \E token \in TokenArgs, user \in Users : login(token, user)
    \/ logout
    \/ \E outcome \in logoutOutcomes : logoutSettle(outcome)
    \/ clearError
    \/ setError(MsgUser)
    \/ \E b \in BOOLEAN : setLoading(b)
    \/ \E c \in Callers : refreshAccessToken(c)
    \/ \E c \in Callers : validateToken(c)
    \/ \E c \in Callers, vres \in validateOutcomes : validateResponse(c, vres)
    \/ \E c \in Callers, rres \in refreshOutcomes : refreshResponse(c, rres)
    \/ \E c \in Callers, body \in refreshBodies : refreshBody(c, body)

\* The store on its own: no AuthProvider is mounted.
Next == StoreNext

Spec == Init /\ [][Next]_vars

\* The store operations that read or write what the AuthProvider depends
\* on (isAuthenticated, the calls in flight); setUser, clearError, setError,
\* setLoading and the settling of logout requests touch neither.
ProviderStoreNext ==
    \/ \E token \in TokenArgs : setAccessToken(token)
    \/ \E token \in TokenArgs, user \in Users : login(token, user)
    \/ logout
    \/ refreshAccessToken("manual")
    \/ validateToken("manual")
    \/ \E c \in Callers, vres \in validateOutcomes : validateResponse(c, vres)
    \/ \E c \in Callers, rres \in refreshOutcomes : refreshResponse(c, rres)
    \/ \E c \in Callers, body \in refreshBodies : refreshBody(c, body)

\* The store with an AuthProvider that mounts and unmounts.
ProviderNext ==
    \/ ~CommitPending /\ ProviderStoreNext
    \/ mount
    \/ unmount
    \/ commit
    \/ tick

ProviderSpec == Init /\ [][ProviderNext]_vars

\* The cookie helpers on their own, for every argument of HttpCalls.
CookieInit ==
    /\ session = initialState
    /\ calls = [c \in Callers |-> IdleCall]
    /\ done = NoDone
    /\ lastOp = "init"
    /\ prevOp = "other"
    /\ snap = NoSnap
    /\ storage = Absent
    /\ logoutReq = [pending |-> FALSE, unhandled |-> FALSE]
    /\ provider = Unmounted
    /\ sinceLogout = FALSE
    /\ loggedOut = FALSE
    /\ http \in HttpCalls

CookieNext == handleLoginSuccessReturns

CookieSpec == CookieInit /\ [][CookieNext]_vars

\* The cookie written and read back, for every token of TokenStrings.
RoundTripInit ==
    /\ session = initialState
    /\ calls = [c \in Callers |-> IdleCall]
    /\ done = NoDone
    /\ lastOp = "init"
    /\ prevOp = "other"
    /\ snap = NoSnap
    /\ storage = Absent
    /\ logoutReq = [pending |-> FALSE, unhandled |-> FALSE]
    /\ provider = Unmounted
    /\ sinceLogout = FALSE
    /\ loggedOut = FALSE
    /\ http \in RoundTrips

RoundTripNext == cookieRoundTrip

RoundTripSpec == RoundTripInit /\ [][RoundTripNext]_vars

\* A browser and the login, logout and refresh routes.
RouteInit ==
    /\ session = initialState
    /\ calls = [c \in Callers |-> IdleCall]
    /\ done = NoDone
    /\ lastOp = "init"
    /\ prevOp = "other"
    /\ snap = NoSnap
    /\ storage = Absent
    /\ logoutReq = [pending |-> FALSE, unhandled |-> FALSE]
    /\ provider = Unmounted
    /\ sinceLogout = FALSE
    /\ loggedOut = FALSE
    /\ http \in Browsers

RouteNext ==
    \/ \E refreshToken \in {Null} \cup RefreshTokens, options \in LoginOptions :
          loginRoute(refreshToken, options)
    \/ logoutRoute
    \/ \E backend \in refreshOutcomes : refreshRoute(backend)

RouteSpec == RouteInit /\ [][RouteNext]_vars

\* One incoming request of the proxy route.
ProxyInit ==
    /\ session = initialState
    /\ calls = [c \in Callers |-> IdleCall]
    /\ done = NoDone
    /\ lastOp = "init"
    /\ prevOp = "other"
    /\ snap = NoSnap
    /\ storage = Absent
    /\ logoutReq = [pending |-> FALSE, unhandled |-> FALSE]
    /\ provider = Unmounted
    /\ sinceLogout = FALSE
    /\ loggedOut = FALSE
    /\ http = ProxyIdle

ProxyNext ==
    \/ proxyPOST
    \/ \E status \in BackendStatuses : proxyFetchResolves(status)
    \/ \E err \in FetchErrors : proxyFetchRejects(err)
    \/ proxyAbort
    \/ proxyRetry
    \/ proxyErrorBody
    \/ \E parsed \in BOOLEAN : proxyJson(parsed)

ProxySpec == ProxyInit /\ [][ProxyNext]_vars

TypeOK ==
    /\ session.accessToken \in TokenArgs \cup {Null}
    /\ session.user \in Users \cup {Null}
    /\ session.isAuthenticated \in BOOLEAN
    /\ session.isLoading \in BOOLEAN
    /\ \A c \in Callers :
         calls[c].pc \in {"idle", "validate_fetch", "refresh_fetch", "refresh_json"}

\* ------------------------------------------------------------------------
\* Properties
\* ------------------------------------------------------------------------

\* An asynchronous operation returned in the last step.
Returned == done.caller # "none"

C2_RefreshFailureClearsToken ==
    (Returned /\ done.rret = "false")
        => (session.accessToken = Null /\ ~session.isAuthenticated)

C2_Witness ==
    /\ Returned /\ done.op = "refresh" /\ done.rret = "false"
    /\ done.rres = "ok" /\ done.body = Null

\* C3: refreshAccessToken() never lets an exception escape: whatever the
\* request and the parsing of its body yield, the call returns a boolean.
C3_RefreshNeverThrows ==
    (Returned /\ done.rcalls > 0)
        => /\ done.rret \in {"true", "false"}
           /\ done.op = "refresh" => done.result \in {"true", "false"}

C3_Witness ==
    /\ Returned /\ done.op = "refresh"
    /\ done.rres = "ok" /\ done.body = Unparsable /\ done.result = "false"

\* C4: validateToken() invoked without an access token sends no validate
\* request, calls refreshAccessToken() once and returns what it returns.
C4_ValidateWithoutTokenDelegates ==
    /\ \A c \in Callers :
         (calls[c].op = "validate" /\ ~Truthy(calls[c].tok))
            => (calls[c].vreqs = 0 /\ calls[c].pc # "validate_fetch")
    /\ (Returned /\ done.op = "validate" /\ ~Truthy(done.tok))
            => /\ done.vreqs = 0
               /\ done.rcalls = 1
               /\ done.result = done.rret
               /\ done.result \in {"true", "false"}

C4_Witness ==
    /\ Returned /\ done.op = "validate" /\ done.tok = ""
    /\ done.result = "true"

\* C5: validateToken() invoked with an access token calls
\* refreshAccessToken() exactly when the validate request does not succeed
\* (401, another non-ok status, network error), and then returns what
\* refreshAccessToken() returns.
C5_ValidateFallsBackToRefresh ==
    (Returned /\ done.op = "validate" /\ Truthy(done.tok))
        => /\ done.vres \in validateOutcomes
           /\ (done.rcalls > 0) <=> (done.vres \in {"401", "other", "neterr"})
           /\ done.vres # "ok"
                => (done.result = done.rret /\ done.rret \in {"true", "false"})

C5_Witness ==
    /\ Returned /\ done.op = "validate" /\ Truthy(done.tok)
    /\ done.vres = "other" /\ done.rcalls = 1 /\ done.result = "true"

\* C6: validateToken() started with accessToken = "abc", answered 401 by
\* the validate request and {accessToken: "xyz"} by the refresh request,
\* returns true and leaves accessToken = "xyz", isAuthenticated = true.
C6_ExpiredTokenIsReplaced ==
    (/\ Returned /\ done.op = "validate" /\ done.tok = "abc"
     /\ done.vres = "401" /\ done.rres = "ok" /\ done.body = "xyz")
        => /\ done.result = "true"
           /\ session.accessToken = "xyz"
           /\ session.isAuthenticated

C6_Witness ==
    /\ Returned /\ done.op = "validate" /\ done.tok = "abc"
    /\ done.vres = "401" /\ done.rres = "ok" /\ done.body = "xyz"

\* C7: validateToken() started on the empty session whose refresh request
\* fails with a network error returns false and leaves accessToken = null,
\* isAuthenticated = false and an error message.
C7_EmptySessionNetworkError ==
    (/\ Returned /\ done.op = "validate" /\ done.fromEmpty
     /\ done.rres = "neterr")
        => /\ done.result = "false"
           /\ session.accessToken = Null
           /\ ~session.isAuthenticated
           /\ session.error # Null

C7_Witness ==
    /\ Returned /\ done.op = "validate" /\ done.fromEmpty
    /\ done.rres = "neterr" /\ done.vreqs = 0

\* C8: a refresh or validate operation that ends in failure leaves the
\* session equal to the initial state except for the error message.
C8_FailureResetsWholeSession ==
    (Returned /\ done.result = "false")
        => /\ session.accessToken = Null
           /\ session.user = Null
           /\ ~session.isAuthenticated
           /\ ~session.isLoading
           /\ session.error # Null

\* C9: login(token, user) followed by logout() leaves the session equal
\* to the initial state in all five fields.
C9_LoginThenLogoutIsInitial ==
    (lastOp = "logout" /\ prevOp = "login") => session = initialState

C9_Witness ==
    /\ lastOp = "logout" /\ prevOp = "login"
    /\ \E c \in Callers : calls[c].pc # "idle"

\* C10: logout() is idempotent: the session after logout(); logout() is
\* the session after the first logout().
C10_LogoutIdempotent ==
    (lastOp = "logout" /\ prevOp = "logout") => session = snap

C10_Witness ==
    /\ lastOp = "logout" /\ prevOp = "logout" /\ snap # NoSnap

\* The empty triple of the storage entry.
EmptyStored ==
    [accessToken |-> Null, user |-> Null, isAuthenticated |-> FALSE]

\* C11: logout() resets the session in the step that sends the logout
\* request, while that request is still pending; a request that later
\* fails or answers an error changes nothing and raises nothing.
C11_LogoutResetIsUnconditional ==
    /\ lastOp = "logout" => (session = initialState /\ logoutReq.pending)
    /\ (lastOp \in {"logoutRejected", "logoutResolved"} /\ prevOp = "logout")
          => session = initialState
    /\ ~logoutReq.unhandled

C11_Witness ==
    /\ lastOp = "logoutRejected" /\ prevOp = "logout"
    /\ session = initialState /\ ~logoutReq.unhandled

\* C15: login(token, user) sets accessToken = token, user = user,
\* isAuthenticated = true and error = null from any state, and starts no
\* request.
C15_LoginIsUnconditional ==
    [][\A token \in TokenArgs, user \in Users :
          login(token, user)
             => /\ session'.accessToken = token
                /\ session'.user = user
                /\ session'.isAuthenticated
                /\ session'.error = Null
                /\ calls' = calls
                /\ logoutReq' = logoutReq]_vars

C15_Witness ==
    /\ lastOp = "login" /\ session.accessToken = "abc"
    /\ session.isAuthenticated /\ session.error = Null
    /\ \E c \in Callers : calls[c].pc = "refresh_json"

\* C16: a refreshAccessToken() that succeeds stores the token of the
\* response and sets isAuthenticated; neither its pending step nor its
\* fulfilled step changes the user record.
C16_RefreshKeepsUser ==
    [][/\ (done'.caller # "none" /\ done'.rret = "true")
            => /\ session'.accessToken = done'.body
               /\ session'.isAuthenticated
               /\ session'.user = session.user
       /\ lastOp' = "refreshAccessToken"
            => /\ session'.user = session.user
               /\ session'.accessToken = session.accessToken
               /\ session'.isAuthenticated = session.isAuthenticated]_vars

C16_Witness ==
    /\ Returned /\ done.op = "refresh" /\ done.rret = "true"
    /\ session.user = "u1" /\ session.accessToken = done.body

\* The fields validateToken() must not touch when the validate request
\* succeeds.
KeptByValidate(s) == <<s.accessToken, s.user, s.isAuthenticated, s.error>>

\* C17: validateToken() with a token held whose validate request succeeds
\* returns true; its pending step and its fulfilled step change isLoading
\* only, which ends false.
C17_ValidateSuccessFrame ==
    [][/\ (done'.caller # "none" /\ done'.op = "validate"
           /\ done'.vres = "ok")
            => /\ done'.result = "true"
               /\ KeptByValidate(session') = KeptByValidate(session)
               /\ ~session'.isLoading
       /\ \A c \in Callers :
            (calls[c].pc = "idle" /\ calls'[c].pc = "validate_fetch")
               => KeptByValidate(session') = KeptByValidate(session)]_vars

C17_Witness ==
    /\ Returned /\ done.op = "validate" /\ done.vres = "ok"
    /\ done.result = "true" /\ session.error # Null
    /\ session.isAuthenticated /\ ~session.isLoading

Established(d) ==
    CASE d.rret = "true" -> <<d.body, TRUE>>
      [] d.rret = "false" -> <<Null, FALSE>>
      [] OTHER -> <<d.tok, TRUE>>

\* C19 as stated: when an operation that was in flight together with
\* another one is the last to resolve, accessToken and isAuthenticated
\* are the ones it established.
C19_LastResponseWins ==
    (/\ Returned /\ done.overlap
     /\ \A c \in Callers : calls[c].pc = "idle")
        => <<session.accessToken, session.isAuthenticated>>
              = Established(done)

\* C19 as amended: an operation that resolves through refreshAccessToken()
\* overwrites accessToken and isAuthenticated with its own outcome, whatever
\* the other operation wrote; one that resolves through a successful
\* validate request writes neither field.
C19_LastWriteWins ==
    [][(done'.caller # "none" /\ done'.overlap)
          => IF done'.rret \in {"true", "false"}
             THEN <<session'.accessToken, session'.isAuthenticated>>
                     = Established(done')
             ELSE /\ session'.accessToken = session.accessToken
                  /\ session'.isAuthenticated = session.isAuthenticated]_vars

C19_Witness ==
    /\ Returned /\ done.overlap /\ done.rret = "true"
    /\ \A c \in Callers : calls[c].pc = "idle"
    /\ session.accessToken = done.body /\ done.body # done.tok

\* The provider called validateToken() in the last step.
ProviderIssued == lastOp \in {"mount", "commit", "tick"} /\ provider.issued

\* C12: once logout() has made isAuthenticated false under an active
\* scheduler, the timer is cleared and the AuthProvider issues no
\* validateToken() call, whatever calls were in flight at the logout.
C12_SchedulerStopsAfterLogout ==
    sinceLogout
       => /\ ~CommitPending => provider.timers = 0
          /\ ~ProviderIssued

\* C13: at most one interval timer exists; once the render is committed a
\* timer exists exactly when the provider is mounted and isAuthenticated
\* is true, so none survives a logout or an unmount.
C13_OneTimerWhileAuthenticated ==
    /\ provider.timers \in {0, 1}
    /\ ~provider.mounted => provider.timers = 0
    /\ ~CommitPending
         => (provider.timers = 1
               <=> (provider.mounted /\ session.isAuthenticated))

C13_Witness ==
    /\ lastOp = "commit" /\ prevOp = "logout"
    /\ provider.mounted /\ provider.timers = 0
    /\ \E c \in Callers : calls[c].pc # "idle"

\* C14: the AuthProvider calls validateToken() from its first effect only
\* in the run that belongs to the mount, never in a later run of the same
\* mount.
C14_ImmediateValidateOnlyAtMount ==
    ~(lastOp = "commit" /\ provider.issued)

\* C20: handleLoginSuccess called with a non-empty refreshToken returns a
\* response that carries the refresh-token Set-Cookie header, with and
\* without options.redirectUrl.
C20_LoginSuccessCarriesCookie ==
    (http.phase = "returned" /\ Truthy(http.refreshToken))
        => /\ http.result.kind # "threw"
           /\ \E cookie \in http.result.setCookie :
                  /\ cookie.name = "refresh_token"
                  /\ cookie.value = http.refreshToken

\* C21: once logout() has reset the session, the session stays
\* unauthenticated (no access token, isAuthenticated false) until the next
\* login() or setAccessToken(), even when a refreshAccessToken() or
\* validateToken() call started before the logout resolves after it.
C21_LogoutOutlivesCallsInFlight ==
    loggedOut => session.accessToken = Null /\ ~session.isAuthenticated

\* C22: when validateToken() resolves to true, the session holds an access
\* token and isAuthenticated is true, for every interleaving.
C22_ValidTrueMeansAuthenticated ==
    (Returned /\ done.op = "validate" /\ done.result = "true")
        => Truthy(session.accessToken) /\ session.isAuthenticated

\* C23: one validateToken() invocation sends at most one validate request
\* and enters refreshAccessToken() at most once, on every path, the catch
\* path included.
C23_ValidateIsTwoStep ==
    /\ \A c \in Callers : calls[c].vreqs <= 1 /\ calls[c].rcalls <= 1
    /\ done.vreqs <= 1 /\ done.rcalls <= 1

\* A validateToken() that went through its catch block and then through
\* refreshAccessToken() has returned.
C23_Witness ==
    /\ Returned /\ done.op = "validate"
    /\ done.vres \in {"other", "neterr"}
    /\ done.vreqs = 1 /\ done.rcalls = 1

\* Some refreshAccessToken() or validateToken() call is in flight.
InFlight == \E c \in Callers : calls[c].pc # "idle"

\* C24: after every step of refreshAccessToken() and validateToken(),
\* isLoading is true exactly when some such call is in flight, also when
\* two calls overlap and one completes before the other.
C24_LoadingTracksCallsInFlight ==
    lastOp \in {"refreshAccessToken", "validateToken", "validateResponse",
                "refreshResponse", "refreshBody"}
        => (session.isLoading <=> InFlight)

\* C25: in every reachable state isAuthenticated = true implies that a
\* user record is held.
C25_AuthenticatedHasUser ==
    session.isAuthenticated => session.user # Null

\* C25, amended: the user record is written by login and setUser and reset
\* by logout only; setAccessToken, refreshAccessToken and validateToken
\* leave it as it is, whether or not they authenticate the session.
C25_UserWrittenByLoginOnly ==
    [][session'.user # session.user
          => lastOp' \in {"login", "setUser", "logout"}]_vars

\* A refresh has authenticated a session that holds no user record.
C25_Witness ==
    /\ Returned /\ done.rret = "true"
    /\ session.isAuthenticated
    /\ session.user = Null

\* C30: getRefreshTokenFromCookie applied to a request whose Cookie header
\* carries the refresh_token pair written by setRefreshTokenCookie for a
\* token t returns exactly t, also when t contains "=".
C30_CookieRoundTrip ==
    http.phase = "read" => http.result = http.token

\* C26: the cookie stored at login is the one the refresh route reads and
\* the logout route clears: after a login that stored the cookie, a refresh
\* request finds that credential, and after such a login followed by a
\* logout, a refresh request finds none and answers 401.
C26_RoutesShareTheCookie ==
    (http.phase = "browser" /\ http.last.route = "refresh"
        /\ http.loginToken # Null)
        => IF http.loggedOutSince
           THEN http.last.credential = Null /\ http.last.status = 401
           ELSE http.last.credential = http.loginToken

\* The log entry of a fetch after which the loop may go on.
Retried(entry) ==
    entry.kind \in {"error", "abort"} \/ entry.status \in {502, 503}

\* C27: the proxy route sends at most 3 backend requests per incoming
\* request; a further request follows only a 502 or 503 response or a
\* thrown fetch error, and the first response that is neither 502 nor 503
\* is the last fetch.
C27_AtMostThreeRequests ==
    /\ http.requests <= maxRetries + 1
    /\ Len(http.log) <= maxRetries + 1
    /\ \A i \in 1..Len(http.log) :
          ~Retried(http.log[i])
              => i = Len(http.log) /\ http.phase \notin {"fetch", "backoff"}
    /\ http.phase = "fetch" => \A i \in 1..Len(http.log) : Retried(http.log[i])

\* Three requests were sent, the last after a 503 and a network error.
C27_Witness ==
    /\ http.phase = "answered"
    /\ http.requests = 3
    /\ http.log[1] = [kind |-> "response", status |-> 503]
    /\ http.log[2].kind = "error"

C29_AlwaysAnswers ==
    /\ http.phase = "answered" => http.answer # 0 /\ ~http.propagated
    /\ (http.phase = "answered" /\ http.abortedPending)
          => http.answer = 504 /\ Len(http.log) = maxRetries + 1

\* The timer fired during the first request and the route has answered.
C29_Witness ==
    /\ http.phase = "answered"
    /\ http.abortedPending
    /\ http.log[1].kind = "abort"

====
